---------------------------- MODULE Spec2Model ----------------------------
(***************************************************************************)
(* A model of the facades of the infrastructure library:                   *)
(*   - MongoHandler (infra/db.py): the collection-management facade;       *)
(*   - the storage facade (infra/core/gcp/gcs.py): create_bucket,          *)
(*     save_artifact, download_artifact, download_artifacts_bunch;         *)
(*   - gcl_log_event, through which both report what they did.             *)
(*                                                                         *)
(* The vendor SDKs (pymongo, google-cloud-storage, google-cloud-logging)   *)
(* are the environment.  The database and the object store are state; a   *)
(* vendor call answers from that state, or with the transport fault the    *)
(* step draws.  Every facade call leaves a record of itself in `last`:     *)
(* what was called, what it returned (or that it raised), the events it    *)
(* handed to the logging sink and the requests it made to the vendor.      *)
(***************************************************************************)
EXTENDS Naturals, Sequences, FiniteSets, TLC

VARIABLES
    conns,          \* open MongoClient connections of the handler
    db,             \* MongoHandler._db: the database the handle refers to
    currDbName,     \* MongoHandler._curr_db_name
    collections,    \* the server: database name -> its collections
    validator,      \* the server: <<database, collection>> -> validator
    buckets,        \* the object store: the names of its buckets
    blobs,          \* the object store: generation -> the object it holds
    sent,           \* generation -> the bytes the upload that made it read
    localFiles,     \* the local file system: path -> content
    pc,             \* where a change_db in progress stands
    handlers,       \* Python's logging: logger name -> its stream handlers
    logCalls,       \* logger name -> python_log_event calls made with it
    last            \* the record of the latest facade call

dbVars == <<conns, db, currDbName, collections, validator>>
gcsVars == <<buckets, blobs, sent, localFiles>>
\* The process around the facades.
hostVars == <<pc, handlers, logCalls>>
vars == <<conns, db, currDbName, collections, validator,
          buckets, blobs, sent, localFiles, pc, handlers, logCalls, last>>

-----------------------------------------------------------------------------
(* The inputs the calls are drawn from. *)

DbNames == {"evo-dev", "evo-test"}
ColNames == {"tmp", "new_evo_col"}
\* The validator documents: MaxValidSchemas that the database accepts and one
\* that it rejects.
MaxValidSchemas == 1
SchemaNames == <<"valid1", "valid2", "valid3">>
ValidSchemas == {SchemaNames[i] : i \in 1..MaxValidSchemas}
InvalidSchemas == {"invalid1"}
Schemas == ValidSchemas \cup InvalidSchemas
NoValidator == "none"

\* What the vendor does in a call besides answering from its state.
DbFaults == {"none", "ConnectionFailure", "OperationFailure"}
\* The logging sink during a call: "up", "down", or "flaky" (the first
\* log_struct of the call fails, the next one succeeds).
SinkModes == {"up", "flaky", "down"}
\* The same for a call that logs once at most.
SingleSink == {"up", "down"}

SinkOk(sink, attempt) == sink = "up" \/ (sink = "flaky" /\ attempt >= 2)

-----------------------------------------------------------------------------
(* enums.py *)

LogSeverities == {"DEBUG", "INFO", "WARNING", "ERROR", "CRITICAL"}

-----------------------------------------------------------------------------
(* gcl_log_event: the structured record handed to logger.log_struct.       *)

\* The name left as it is.
Lower_Identity(envName) == envName

Lower(envName) ==
    CASE envName = "TEST" -> "test"
      [] envName = "DEV" -> "dev"
      [] envName = "STAGING" -> "staging"
      [] envName = "PROD" -> "prod"
      [] envName = "INFRA" -> "infra"

\* gcl_log_event(logger_name, event_name, message, description, environment,
\* severity, **kwargs); `func` and `extra` are the keyword metadata.
GclLogEvent(eventName, environment, severity, func, extra) ==
    [name |-> eventName, env |-> Lower(environment), severity |-> severity,
     func |-> func, extra |-> extra]

DefaultEnvironment == "DEV"
DefaultSeverity == "INFO"

-----------------------------------------------------------------------------
(* The record of a call. *)

\* ret is "True", "False", "None" (the function fell off its end), "handle"
\* (get_collection) or "raised" (an exception left the function).  answer is
\* what the vendor answered, fault the transport fault drawn for the call,
\* sinkFailed whether the sink refused a record during it.  before is what
\* the call before this one returned when that was the same call (the same
\* operation with the same arguments) and nothing failed in it, "other"
\* otherwise.
NoCall == [op |-> "none", args |-> <<>>, ret |-> "None", events |-> <<>>,
           attempts |-> 0, vendor |-> <<>>, handle |-> <<>>,
           answer |-> "none", fault |-> "none", sinkFailed |-> FALSE,
           before |-> "other"]

Clean(call) == call.fault = "none" /\ ~call.sinkFailed

\* A path that ends by logging event e and returning r: gcl_log_event raises
\* when the sink refuses the record, and no handler of the facade catches it.
LogThen(e, r, sink) ==
    IF SinkOk(sink, 1)
    THEN [ret |-> r, events |-> <<e>>, attempts |-> 1, sinkFailed |-> FALSE]
    ELSE [ret |-> "raised", events |-> <<>>, attempts |-> 1,
          sinkFailed |-> TRUE]

\* A path that returns r without logging.
Silent(r) == [ret |-> r, events |-> <<>>, attempts |-> 0, sinkFailed |-> FALSE]

Call(op, args, out, vendor, handle, answer, fault) ==
    [op |-> op, args |-> args, ret |-> out.ret, events |-> out.events,
     attempts |-> out.attempts, vendor |-> vendor, handle |-> handle,
     answer |-> answer, fault |-> fault, sinkFailed |-> out.sinkFailed,
     before |-> IF last.op = op /\ last.args = args /\ Clean(last)
                THEN last.ret ELSE "other"]

Record(call) == last' = call

-----------------------------------------------------------------------------
(* MongoHandler *)

Request(call, target) == [call |-> call, target |-> target]

MongoEvent(eventName, severity, func, extra) ==
    GclLogEvent(eventName, DefaultEnvironment, severity, func, extra)

Alive == conns = 1

\* __init__: one client, the database db_name, no call made yet.  The server
\* starts with no collections.
MongoInit ==
    /\ conns = 1
    /\ db \in DbNames
    /\ currDbName = db
    /\ collections = [d \in DbNames |-> {}]
    /\ validator = [t \in DbNames \X ColNames |-> NoValidator]

\* __del__
Teardown ==
    /\ Alive
    /\ conns' = conns - 1
    /\ UNCHANGED <<db, currDbName, collections, validator, gcsVars, hostVars, last>>

\* change_db that renames the current database and keeps the old handle.
ChangeDb_NameOnly(dbName, sink) ==
    /\ Alive
    /\ currDbName' = dbName
    /\ Record(Call("change_db", <<dbName>>,
                   LogThen(MongoEvent("DB Changed", DefaultSeverity,
                                      "change_db", <<currDbName', dbName>>),
                           "None", sink),
                   <<Request("get_database", <<dbName>>)>>, <<>>, "ok", "none"))
    /\ UNCHANGED <<conns, db, collections, validator, gcsVars, hostVars>>

\* change_db that replaces the handle and keeps the old name.
ChangeDb_HandleOnly(dbName, sink) ==
    /\ Alive
    /\ db' = dbName
    /\ currDbName' = currDbName
    /\ Record(Call("change_db", <<dbName>>,
                   LogThen(MongoEvent("DB Changed", DefaultSeverity,
                                      "change_db", <<currDbName', dbName>>),
                           "None", sink),
                   <<Request("get_database", <<dbName>>)>>, <<>>, "ok", "none"))
    /\ UNCHANGED <<conns, collections, validator, gcsVars, hostVars>>

\* change_db that opens a client of its own for the new database.
ChangeDb_Reconnect(dbName, sink) ==
    /\ Alive
    /\ conns' = conns + 1
    /\ db' = dbName
    /\ currDbName' = dbName
    /\ Record(Call("change_db", <<dbName>>,
                   LogThen(MongoEvent("DB Changed", DefaultSeverity,
                                      "change_db", <<currDbName', dbName>>),
                           "None", sink),
                   <<Request("get_database", <<dbName>>)>>, <<>>, "ok", "none"))
    /\ UNCHANGED <<collections, validator, gcsVars, hostVars>>

\* change_db: both fields are assigned before the event is built, so the
\* event's old_db is read from the field that already holds the new name.
ChangeDb(dbName, sink) ==
    /\ Alive
    /\ db' = dbName
    /\ currDbName' = dbName
    /\ Record(Call("change_db", <<dbName>>,
                   LogThen(MongoEvent("DB Changed", DefaultSeverity,
                                      "change_db", <<currDbName', dbName>>),
                           "None", sink),
                   <<Request("get_database", <<dbName>>)>>, <<>>, "ok", "none"))
    /\ UNCHANGED <<conns, collections, validator, gcsVars, hostVars>>

\* get_collection logging at the default severity.
GetCollection_Default(colName, sink) ==
    /\ Alive
    /\ Record(Call("get_collection", <<colName>>,
                   LogThen(MongoEvent("Collection Changed", DefaultSeverity,
                                      "get_collection", <<colName>>),
                           "handle", sink),
                   <<Request("get_collection", <<db, colName>>)>>,
                   <<db, colName>>, "ok", "none"))
    /\ UNCHANGED <<dbVars, gcsVars, hostVars>>

\* change_db as two callers see it.  Its first assignment gone the other
\* way: the name before the handle.
ChangeDbBegin_NameFirst(dbName) ==
    /\ Alive /\ pc = "idle"
    /\ currDbName' = dbName
    /\ pc' = dbName
    /\ UNCHANGED <<conns, db, collections, validator, gcsVars,
                   handlers, logCalls, last>>

\* Line 37: self._db is replaced; pc keeps the name line 38 is to assign.
ChangeDbBegin(dbName) ==
    /\ Alive /\ pc = "idle"
    /\ db' = dbName
    /\ pc' = dbName
    /\ UNCHANGED <<conns, currDbName, collections, validator, gcsVars,
                   handlers, logCalls, last>>

\* Lines 38-47: self._curr_db_name is assigned, the event logged.
ChangeDbEnd(sink) ==
    /\ Alive /\ pc # "idle"
    /\ currDbName' = pc
    /\ pc' = "idle"
    /\ Record(Call("change_db", <<pc>>,
                   LogThen(MongoEvent("DB Changed", DefaultSeverity,
                                      "change_db", <<currDbName', pc>>),
                           "None", sink),
                   <<Request("get_database", <<pc>>)>>, <<>>, "ok", "none"))
    /\ UNCHANGED <<conns, db, collections, validator, gcsVars,
                   handlers, logCalls>>

GetCollection(colName, sink) ==
    /\ Alive
    /\ Record(Call("get_collection", <<colName>>,
                   LogThen(MongoEvent("Collection Changed", "DEBUG",
                                      "get_collection", <<colName>>),
                           "handle", sink),
                   <<Request("get_collection", <<db, colName>>)>>,
                   <<db, colName>>, "ok", "none"))
    /\ UNCHANGED <<dbVars, gcsVars, hostVars>>

\* The driver's answer to create_collection: it refuses a name the database
\* already has.
DriverCreateCollection(colName, fault) ==
    IF fault # "none" THEN fault
    ELSE IF colName \in collections[db] THEN "CollectionInvalid"
    ELSE "ok"

\* create_collection without its handler of CollectionInvalid.
CreateCollectionOutcome_Uncaught(answer, colName, sink) ==
    CASE answer = "ok" ->
           LogThen(MongoEvent("Collection Created", DefaultSeverity,
                              "create_collection", <<colName>>),
                   "True", sink)
      [] answer = "CollectionInvalid" -> Silent("raised")
      [] answer = "ConnectionFailure" -> Silent("False")
      [] answer = "OperationFailure" -> Silent("raised")

\* create_collection that reports a collection it made as not made.
CreateCollectionOutcome_False(answer, colName, sink) ==
    CASE answer = "ok" ->
           LogThen(MongoEvent("Collection Created", DefaultSeverity,
                              "create_collection", <<colName>>),
                   "False", sink)
      [] answer = "CollectionInvalid" ->
           LogThen(MongoEvent("Collection Error", "ERROR",
                              "create_collection", <<>>),
                   "False", sink)
      [] answer = "ConnectionFailure" -> Silent("False")
      [] answer = "OperationFailure" -> Silent("raised")

\* create_collection sending a connection failure to the sink as well.
CreateCollectionOutcome_ConnLogged(answer, colName, sink) ==
    CASE answer = "ok" ->
           LogThen(MongoEvent("Collection Created", DefaultSeverity,
                              "create_collection", <<colName>>),
                   "True", sink)
      [] answer \in {"CollectionInvalid", "ConnectionFailure"} ->
           LogThen(MongoEvent("Collection Error", "ERROR",
                              "create_collection", <<>>),
                   "False", sink)
      [] answer = "OperationFailure" -> Silent("raised")

\* create_collection, from the driver's answer on: a connection failure is
\* printed, not logged; an OperationFailure is not caught.
CreateCollectionOutcome(answer, colName, sink) ==
    CASE answer = "ok" ->
           LogThen(MongoEvent("Collection Created", DefaultSeverity,
                              "create_collection", <<colName>>),
                   "True", sink)
      [] answer = "CollectionInvalid" ->
           LogThen(MongoEvent("Collection Error", "ERROR",
                              "create_collection", <<>>),
                   "False", sink)
      [] answer = "ConnectionFailure" -> Silent("False")
      [] answer = "OperationFailure" -> Silent("raised")

CreateCollection(colName, fault, sink) ==
    /\ Alive
    /\ LET answer == DriverCreateCollection(colName, fault)
       IN /\ IF answer = "ok"
             THEN /\ collections' =
                        [collections EXCEPT ![db] = @ \cup {colName}]
                  /\ validator' =
                        [validator EXCEPT ![<<db, colName>>] = NoValidator]
             ELSE UNCHANGED <<collections, validator>>
          /\ Record(Call("create_collection", <<colName>>,
                         CreateCollectionOutcome(answer, colName, sink),
                         <<Request("create_collection", <<db, colName>>)>>,
                         <<>>, answer, fault))
    /\ UNCHANGED <<conns, db, currDbName, gcsVars, hostVars>>

\* The driver's answer to drop_collection: the server's reply, which
\* carries an errmsg when the database has no such collection.
DriverDropCollection(colName, fault) ==
    IF fault # "none" THEN fault
    ELSE IF colName \in collections[db] THEN "ok"
    ELSE "errmsg"

\* delete_collection with the test of the reply inverted.
DeleteCollectionOutcome_Inverted(answer, colName, sink) ==
    CASE answer = "ok" ->
           LogThen(MongoEvent("Collection Error", "WARNING",
                              "delete_collection", <<colName>>),
                   "False", sink)
      [] answer = "errmsg" ->
           LogThen(MongoEvent("Collection Deleted", DefaultSeverity,
                              "delete_collection", <<>>),
                   "True", sink)
      [] answer = "ConnectionFailure" -> Silent("False")
      [] answer = "OperationFailure" -> Silent("raised")

\* delete_collection that keeps a reply with errmsg to itself.
DeleteCollectionOutcome_Quiet(answer, colName, sink) ==
    CASE answer = "errmsg" -> Silent("False")
      [] answer = "ok" ->
           LogThen(MongoEvent("Collection Deleted", DefaultSeverity,
                              "delete_collection", <<>>),
                   "True", sink)
      [] answer = "ConnectionFailure" -> Silent("False")
      [] answer = "OperationFailure" -> Silent("raised")

\* delete_collection without the test of the reply.
DeleteCollectionOutcome_Unchecked(answer, colName, sink) ==
    CASE answer \in {"ok", "errmsg"} ->
           LogThen(MongoEvent("Collection Deleted", DefaultSeverity,
                              "delete_collection", <<>>),
                   "True", sink)
      [] answer = "ConnectionFailure" -> Silent("False")
      [] answer = "OperationFailure" -> Silent("raised")

\* delete_collection, from the driver's answer on.
DeleteCollectionOutcome(answer, colName, sink) ==
    CASE answer = "errmsg" ->
           LogThen(MongoEvent("Collection Error", "WARNING",
                              "delete_collection", <<colName>>),
                   "False", sink)
      [] answer = "ok" ->
           LogThen(MongoEvent("Collection Deleted", DefaultSeverity,
                              "delete_collection", <<>>),
                   "True", sink)
      [] answer = "ConnectionFailure" -> Silent("False")
      [] answer = "OperationFailure" -> Silent("raised")

DeleteCollection(colName, fault, sink) ==
    /\ Alive
    /\ LET answer == DriverDropCollection(colName, fault)
       IN /\ IF answer = "ok"
             THEN /\ collections' =
                        [collections EXCEPT ![db] = @ \ {colName}]
                  /\ validator' =
                        [validator EXCEPT ![<<db, colName>>] = NoValidator]
             ELSE UNCHANGED <<collections, validator>>
          /\ Record(Call("delete_collection", <<colName>>,
                         DeleteCollectionOutcome(answer, colName, sink),
                         <<Request("drop_collection", <<db, colName>>)>>,
                         <<>>, answer, fault))
    /\ UNCHANGED <<conns, db, currDbName, gcsVars, hostVars>>

\* The driver's answer to the collMod command.  The server rejects the
\* command for a collection the database does not have and for a validator
\* that is not a valid schema; `rejection` is how that reaches the caller:
\* as an OperationFailure, or as a reply that carries an errmsg.
DriverCollMod(colName, schema, fault, rejection) ==
    IF fault # "none" THEN fault
    ELSE IF colName \notin collections[db] \/ schema \notin ValidSchemas
    THEN rejection
    ELSE "ok"

\* update_collection_schema without its handler of OperationFailure.
UpdateCollectionSchemaOutcome_Uncaught(answer, colName, schema, sink) ==
    CASE answer = "errmsg" ->
           LogThen(MongoEvent("Collection Error", "WARNING",
                              "update_collection_schema", <<colName>>),
                   "False", sink)
      [] answer = "ok" ->
           LogThen(MongoEvent("Collection Schema Updated", DefaultSeverity,
                              "update_collection_schema",
                              <<colName, schema>>),
                   "True", sink)
      [] answer = "ConnectionFailure" -> Silent("False")
      [] answer = "OperationFailure" -> Silent("raised")

\* update_collection_schema without the test of the reply.
UpdateCollectionSchemaOutcome_Unchecked(answer, colName, schema, sink) ==
    CASE answer \in {"ok", "errmsg"} ->
           LogThen(MongoEvent("Collection Schema Updated", DefaultSeverity,
                              "update_collection_schema",
                              <<colName, schema>>),
                   "True", sink)
      [] answer = "ConnectionFailure" -> Silent("False")
      [] answer = "OperationFailure" ->
           LogThen(MongoEvent("Collection Error", "ERROR",
                              "update_collection_schema", <<colName>>),
                   "False", sink)

\* update_collection_schema, from the driver's answer on.
UpdateCollectionSchemaOutcome(answer, colName, schema, sink) ==
    CASE answer = "errmsg" ->
           LogThen(MongoEvent("Collection Error", "WARNING",
                              "update_collection_schema", <<colName>>),
                   "False", sink)
      [] answer = "ok" ->
           LogThen(MongoEvent("Collection Schema Updated", DefaultSeverity,
                              "update_collection_schema",
                              <<colName, schema>>),
                   "True", sink)
      [] answer = "ConnectionFailure" -> Silent("False")
      [] answer = "OperationFailure" ->
           LogThen(MongoEvent("Collection Error", "ERROR",
                              "update_collection_schema", <<colName>>),
                   "False", sink)

UpdateCollectionSchema(colName, schema, fault, rejection, sink) ==
    /\ Alive
    /\ LET answer == DriverCollMod(colName, schema, fault, rejection)
       IN /\ IF answer = "ok"
             THEN validator' = [validator EXCEPT ![<<db, colName>>] = schema]
             ELSE UNCHANGED validator
          /\ Record(Call("update_collection_schema", <<colName, schema>>,
                         UpdateCollectionSchemaOutcome(answer, colName,
                                                       schema, sink),
                         <<Request("collMod", <<db, colName>>)>>,
                         <<>>, answer, fault))
    /\ UNCHANGED <<conns, db, currDbName, collections, gcsVars, hostVars>>

Rejections == {"OperationFailure", "errmsg"}
\* The server answers a command at all only when no transport fault occurs.
RejectionsOf(fault) == IF fault = "none" THEN Rejections ELSE {"errmsg"}

-----------------------------------------------------------------------------
(* The storage facade (core/gcp/gcs.py) *)

AppNames == {"app", "etl"}
BucketNames == {"raw", "ml"}
ObjectNames == {"model", "data"}
Contents == {"x", "y"}
Absent == "absent"
Empty == ""
\* The generations the object store hands out are 1..MaxGen.
MaxGen == 2
Generations == 1..MaxGen
DestDirs == {"/tmp"}
DestFileNames == {"b"}

\* The two names joined the other way round.
UniqueName_Swapped(bucketName, appName) == bucketName \o "_" \o appName

\* unique_name = app_name + '_' + bucket_name
UniqueName(bucketName, appName) == appName \o "_" \o bucketName

\* The bucket the callers of save_artifact and download_artifact name, by
\* the name create_bucket gave it, and the one file they upload.
ArtifactBucket == "raw"
ArtifactApp == "app"
ArtifactBuckets == {UniqueName(ArtifactBucket, ArtifactApp)}

SourcePaths == {"/tmp/a"}

\* os.path.abspath(os.path.join(dest_dir, dest_file_name)), for an absolute
\* directory without a trailing separator and a relative file name.
DestFullPath(destDir, destFileName) == destDir \o "/" \o destFileName

LocalPaths ==
    SourcePaths \cup {DestFullPath(d, n) : d \in DestDirs, n \in DestFileNames}

\* The directories download_artifacts_bunch is pointed at, and what the
\* file system holds at such a path: nothing, a directory, or a directory
\* with the artifacts a completed copy put there.
LocalDirs == {"/data", "cp"}
Directory == "dir"
Artifacts == "artifacts"

NoBlob == [bucket |-> "", object |-> "", content |-> ""]

GcsEvent(eventName, severity, func, extra) ==
    GclLogEvent(eventName, "INFRA", severity, func, extra)

GcsInit ==
    /\ buckets = {}
    /\ blobs = <<>>
    /\ sent = <<>>
    /\ localFiles = [p \in LocalPaths \cup LocalDirs |-> Absent]

\* The user's own writes to the local file system.
EditLocalFile(path, content) ==
    /\ localFiles[path] # content
    /\ localFiles' = [localFiles EXCEPT ![path] = content]
    /\ UNCHANGED <<dbVars, hostVars, buckets, blobs, sent, last>>

\* The store's answer to create_bucket.
StoreCreateBucket(name, fault) ==
    IF fault # "none" THEN fault
    ELSE IF name \in buckets THEN "Conflict"
    ELSE "ok"

\* create_bucket without its handler of Conflict.
CreateBucketOutcome_Uncaught(answer, uniqueName, sink) ==
    CASE answer = "ok" ->
           LogThen(GcsEvent("Bucket Created", DefaultSeverity,
                            "create_bucket", <<uniqueName>>),
                   "True", sink)
      [] answer \in {"Conflict", "GoogleCloudError"} -> Silent("raised")

\* create_bucket with a handler for every cloud error.
CreateBucketOutcome_CatchAll(answer, uniqueName, sink) ==
    CASE answer = "ok" ->
           LogThen(GcsEvent("Bucket Created", DefaultSeverity,
                            "create_bucket", <<uniqueName>>),
                   "True", sink)
      [] answer \in {"Conflict", "GoogleCloudError"} ->
           LogThen(GcsEvent("Bucket Error", "ERROR",
                            "create_bucket", <<uniqueName>>),
                   "False", sink)

\* create_bucket, from the store's answer on: only Conflict is caught.
CreateBucketOutcome(answer, uniqueName, sink) ==
    CASE answer = "ok" ->
           LogThen(GcsEvent("Bucket Created", DefaultSeverity,
                            "create_bucket", <<uniqueName>>),
                   "True", sink)
      [] answer = "Conflict" ->
           LogThen(GcsEvent("Bucket Error", "ERROR",
                            "create_bucket", <<uniqueName>>),
                   "False", sink)
      [] answer = "GoogleCloudError" -> Silent("raised")

CreateBucket(bucketName, appName, fault, sink) ==
    LET uniqueName == UniqueName(bucketName, appName)
        answer == StoreCreateBucket(uniqueName, fault)
    IN /\ buckets' = IF answer = "ok" THEN buckets \cup {uniqueName}
                     ELSE buckets
       /\ Record(Call("create_bucket", <<bucketName, appName>>,
                      CreateBucketOutcome(answer, uniqueName, sink),
                      <<Request("create_bucket", <<uniqueName>>)>>,
                      <<>>, answer, fault))
       /\ UNCHANGED <<dbVars, hostVars, blobs, sent, localFiles>>

CreateFaults == {"none", "GoogleCloudError"}

\* The store's answer to what save_artifact asks of it, in the order it asks:
\* get_bucket, then (the local file opened) upload_from_file.
StoreSave(bucketName, filePath, fault) ==
    IF fault = "GetBucketError" THEN "GoogleCloudError"
    ELSE IF bucketName \notin buckets THEN "NotFound"
    ELSE IF localFiles[filePath] = Absent THEN "FileNotFoundError"
    ELSE IF fault = "UploadError" THEN "GoogleCloudError"
    ELSE "ok"

\* save_artifact without its handler of FileNotFoundError.
SaveArtifactOutcome_NoFileHandler(answer, bucketName, objectName, filePath, sink) ==
    CASE answer = "ok" ->
           LogThen(GcsEvent("Artifact Upload", DefaultSeverity,
                            "save_artifact", <<>>),
                   "True", sink)
      [] answer = "NotFound" ->
           LogThen(GcsEvent("Artifact Uploading Error", "WARNING",
                            "save_artifact", <<>>),
                   "False", sink)
      [] answer = "GoogleCloudError" ->
           LogThen(GcsEvent("Artifact Uploading Error", "ERROR",
                            "save_artifact", <<>>),
                   "False", sink)
      [] answer = "FileNotFoundError" -> Silent("raised")

\* save_artifact, from there on.  The event of a completed upload is logged
\* inside the try block: a GoogleCloudError of the sink is caught by the
\* handler of GoogleCloudError, which logs again and returns False.
SaveArtifactOutcome(answer, bucketName, objectName, filePath, sink) ==
    CASE answer = "ok" ->
           IF SinkOk(sink, 1)
           THEN LogThen(GcsEvent("Artifact Upload", DefaultSeverity,
                                 "save_artifact", <<>>),
                        "True", sink)
           ELSE IF SinkOk(sink, 2)
           THEN [ret |-> "False",
                 events |-> <<GcsEvent("Artifact Uploading Error", "ERROR",
                                       "save_artifact", <<>>)>>,
                 attempts |-> 2, sinkFailed |-> TRUE]
           ELSE [ret |-> "raised", events |-> <<>>, attempts |-> 2,
                 sinkFailed |-> TRUE]
      [] answer = "NotFound" ->
           LogThen(GcsEvent("Artifact Uploading Error", "WARNING",
                            "save_artifact", <<>>),
                   "False", sink)
      [] answer = "GoogleCloudError" ->
           LogThen(GcsEvent("Artifact Uploading Error", "ERROR",
                            "save_artifact", <<>>),
                   "False", sink)
      [] answer = "FileNotFoundError" ->
           LogThen(GcsEvent("Artifact Uploading Error", "WARNING",
                            "save_artifact", <<>>),
                   "False", sink)

\* The store after an upload to (bucketName, objectName): a new generation
\* holds the bytes, and the generation the object had is gone (the buckets
\* keep no noncurrent versions).
Uploaded(bucketName, objectName, content) ==
    [g \in 1..(Len(blobs) + 1) |->
       IF g = Len(blobs) + 1
       THEN [bucket |-> bucketName, object |-> objectName,
             content |-> content]
       ELSE IF blobs[g].bucket = bucketName /\ blobs[g].object = objectName
       THEN NoBlob
       ELSE blobs[g]]

SaveArtifact(bucketName, objectName, filePath, fault, sink) ==
    LET answer == StoreSave(bucketName, filePath, fault)
        reached == IF answer = "ok" \/ fault = "UploadError"
                   THEN <<Request("get_bucket", <<>>),
                          Request("upload_from_file", <<>>)>>
                   ELSE <<Request("get_bucket", <<>>)>>
    IN /\ answer = "ok" => Len(blobs) < MaxGen
       /\ IF answer = "ok"
          THEN /\ blobs' = Uploaded(bucketName, objectName,
                                    localFiles[filePath])
               /\ sent' = Append(sent, localFiles[filePath])
          ELSE UNCHANGED <<blobs, sent>>
       /\ Record(Call("save_artifact", <<objectName>>,
                      SaveArtifactOutcome(answer, bucketName, objectName,
                                          filePath, sink),
                      reached, <<>>, answer, fault))
       /\ UNCHANGED <<dbVars, hostVars, buckets, localFiles>>

SaveFaults == {"none", "GetBucketError", "UploadError"}

\* get_blob without the generation: the object's live generation.
GetBlob_Live(bucketName, objectName, generation) ==
    LET live == {g \in 1..Len(blobs) : /\ blobs[g].bucket = bucketName
                                       /\ blobs[g].object = objectName}
    IN IF live = {} THEN NoBlob ELSE blobs[CHOOSE g \in live : TRUE]

\* bucket.get_blob(object_name, generation): the generation asked for, when
\* the bucket holds it under that name; NoBlob (None) otherwise.
GetBlob(bucketName, objectName, generation) ==
    IF /\ generation <= Len(blobs)
       /\ blobs[generation].bucket = bucketName
       /\ blobs[generation].object = objectName
    THEN blobs[generation]
    ELSE NoBlob

\* The store's answer to what download_artifact asks of it, in the order it
\* asks: get_bucket, get_blob, download_to_filename.
StoreDownload(bucketName, objectName, generation, fault) ==
    IF fault = "GoogleCloudError" THEN "GoogleCloudError"
    ELSE IF bucketName \notin buckets THEN "BucketNotFound"
    ELSE IF GetBlob(bucketName, objectName, generation) = NoBlob THEN "NoBlob"
    ELSE IF fault = "TransferNotFound" THEN "TransferNotFound"
    ELSE "ok"

\* download_artifact without the test of the blob: None has no
\* download_to_filename.
DownloadArtifactOutcome_NoTest(answer, objectName, destFullPath, sink) ==
    CASE answer = "NoBlob" -> Silent("raised")
      [] answer = "ok" ->
           LogThen(GcsEvent("Artifact Download", DefaultSeverity,
                            "download_artifact", <<>>),
                   "True", sink)
      [] answer \in {"BucketNotFound", "TransferNotFound"} ->
           LogThen(GcsEvent("Artifact Downloading Error", "ERROR",
                            "download_artifact", <<>>),
                   "None", sink)
      [] answer = "GoogleCloudError" -> Silent("raised")

\* download_artifact, from there on.  The handler of NotFound logs and ends
\* without a return statement.
DownloadArtifactOutcome(answer, objectName, destFullPath, sink) ==
    CASE answer = "NoBlob" ->
           LogThen(GcsEvent("Artifact Downloading Error", "WARNING",
                            "download_artifact", <<>>),
                   "False", sink)
      [] answer = "ok" ->
           LogThen(GcsEvent("Artifact Download", DefaultSeverity,
                            "download_artifact", <<>>),
                   "True", sink)
      [] answer \in {"BucketNotFound", "TransferNotFound"} ->
           LogThen(GcsEvent("Artifact Downloading Error", "ERROR",
                            "download_artifact", <<>>),
                   "None", sink)
      [] answer = "GoogleCloudError" -> Silent("raised")

\* A transfer that ends in NotFound has written nothing; whether it leaves
\* an empty file at the destination is the SDK's matter (`leaves`).
DownloadArtifact(bucketName, objectName, generation, destDir, destFileName, fault, leaves, sink) ==
    LET destFullPath == DestFullPath(destDir, destFileName)
        answer == StoreDownload(bucketName, objectName, generation, fault)
        blob == GetBlob(bucketName, objectName, generation)
        reached ==
            CASE answer \in {"GoogleCloudError", "BucketNotFound"} ->
                   <<Request("get_bucket", <<>>)>>
              [] answer = "NoBlob" ->
                   <<Request("get_bucket", <<>>),
                     Request("get_blob", <<>>)>>
              [] OTHER ->
                   <<Request("get_bucket", <<>>),
                     Request("get_blob", <<>>),
                     Request("download_to_filename", <<>>)>>
    IN /\ localFiles' =
            CASE answer = "ok" ->
                   [localFiles EXCEPT ![destFullPath] = blob.content]
              [] answer = "TransferNotFound" /\ leaves ->
                   [localFiles EXCEPT ![destFullPath] = Empty]
              [] OTHER -> localFiles
       /\ Record(Call("download_artifact", <<generation>>,
                      DownloadArtifactOutcome(answer, objectName,
                                              destFullPath, sink),
                      reached, <<>>, answer, fault))
       /\ UNCHANGED <<dbVars, hostVars, buckets, blobs, sent>>

DownloadFaults == {"none", "TransferNotFound", "GoogleCloudError"}
\* Only a transfer that fails has something to leave behind.
LeavesOf(fault) == IF fault = "TransferNotFound" THEN BOOLEAN ELSE {FALSE}

-----------------------------------------------------------------------------
(* download_artifacts_bunch *)

\* data_cloud_path: None, the empty string, or a path inside the bucket.
NoPath == "None"
CloudPaths == {NoPath, "", "models"}
\* The buckets it is asked to copy from: the artifacts' bucket and one that
\* is never created.
BunchBuckets == ArtifactBuckets \cup {UniqueName("ml", "etl")}

\* `if data_cloud_path:` is false for None and for the empty string.
Truthy(dataCloudPath) == dataCloudPath \notin {NoPath, ""}

\* url = f'gs://{bucket_name}', then url + f'/{data_cloud_path}'
Url(bucketName, dataCloudPath) ==
    IF Truthy(dataCloudPath)
    THEN ("gs://" \o bucketName) \o ("/" \o dataCloudPath)
    ELSE "gs://" \o bucketName

\* list.index(x): the position, counted from 0, of the first x.
Index(list, x) ==
    (CHOOSE i \in 1..Len(list) :
        list[i] = x /\ \A j \in 1..(i - 1) : list[j] # x) - 1

\* list.insert(i, x): x goes before the element at position i (from 0).
Insert(list, i, x) ==
    SubSeq(list, 1, i) \o <<x>> \o SubSeq(list, i + 1, Len(list))

\* The command with both flags put after cp.
DownloadCommand_AfterCp(bucketName, localDirectoryPath, dataCloudPath, recursive, parallel) ==
    <<"gsutil", "cp">> \o (IF parallel THEN <<"-m">> ELSE <<>>)
      \o (IF recursive THEN <<"-r">> ELSE <<>>)
      \o <<Url(bucketName, dataCloudPath), localDirectoryPath>>

\* download_command, as lines 264-276 build it.
DownloadCommand(bucketName, localDirectoryPath, dataCloudPath, recursive, parallel) ==
    LET command == <<"gsutil", "cp", Url(bucketName, dataCloudPath),
                     localDirectoryPath>>
        withM == IF parallel
                 THEN Insert(command, Index(command, "gsutil") + 1, "-m")
                 ELSE command
    IN IF recursive
       THEN Insert(withM, Index(withM, "cp") + 1, "-r")
       ELSE withM

\* What the operating system answers to os.mkdir, and what becomes of
\* subprocess.run(download_command): the tool exits with 0, it exits with
\* another status, or it cannot be started (OSError).  run does not look at
\* the exit status (no check=True).
Mkdirs == {"mkdir_ok", "mkdir_OSError"}
Runs == {"exit0", "exit1", "OSError"}

\* The branch of a missing directory that logs when mkdir succeeded too.
MkdirOutcome_Logged(answer, sink) ==
    LogThen(GcsEvent("Directory Creation Error", "ERROR",
                     "download_artifacts_bunch", <<>>),
            "False", sink)

\* The branch of a missing directory: mkdir, an event if it failed, and
\* return False either way.
MkdirOutcome(answer, sink) ==
    IF answer = "mkdir_OSError"
    THEN LogThen(GcsEvent("Directory Creation Error", "ERROR",
                          "download_artifacts_bunch", <<>>),
                 "False", sink)
    ELSE Silent("False")

\* The try block around subprocess.run: the event of success is logged
\* inside it, and `except Exception` catches what the sink raises as well.
RunOutcome(answer, sink) ==
    IF answer = "OSError"
    THEN LogThen(GcsEvent("Artifacts Downloading Error", "ERROR",
                          "download_artifacts_bunch", <<>>),
                 "False", sink)
    ELSE IF SinkOk(sink, 1)
    THEN LogThen(GcsEvent("Artifacts Bunch Download", DefaultSeverity,
                          "download_artifacts_bunch", <<>>),
                 "True", sink)
    ELSE IF SinkOk(sink, 2)
    THEN [ret |-> "False",
          events |-> <<GcsEvent("Artifacts Downloading Error", "ERROR",
                                "download_artifacts_bunch", <<>>)>>,
          attempts |-> 2, sinkFailed |-> TRUE]
    ELSE [ret |-> "raised", events |-> <<>>, attempts |-> 2,
          sinkFailed |-> TRUE]

DownloadArtifactsBunch(bucketName, localDirectoryPath, dataCloudPath, recursive, parallel, mkdir, run, sink) ==
    LET exists == localFiles[localDirectoryPath] # Absent
        answer == IF exists THEN run ELSE mkdir
        command == DownloadCommand(bucketName, localDirectoryPath,
                                   dataCloudPath, recursive, parallel)
    IN /\ localFiles' =
            CASE answer = "mkdir_ok" ->
                   [localFiles EXCEPT ![localDirectoryPath] = Directory]
              [] answer = "exit0" ->
                   [localFiles EXCEPT ![localDirectoryPath] = Artifacts]
              [] OTHER -> localFiles
       /\ Record(Call("download_artifacts_bunch",
                      <<bucketName, localDirectoryPath, dataCloudPath,
                        recursive, parallel>>,
                      IF exists THEN RunOutcome(answer, sink)
                      ELSE MkdirOutcome(answer, sink),
                      IF exists
                      THEN <<Request("subprocess.run", command)>>
                      ELSE <<Request("os.mkdir", <<localDirectoryPath>>)>>,
                      <<>>, answer, "none"))
       /\ UNCHANGED <<dbVars, hostVars, buckets, blobs, sent>>

\* mkdir is asked only for a missing directory, the tool run only with the
\* directory there; the tool copies nothing out of a bucket that is not.
MkdirsOf(localDirectoryPath) ==
    IF localFiles[localDirectoryPath] = Absent THEN Mkdirs ELSE {"mkdir_ok"}
RunsOf(bucketName, localDirectoryPath) ==
    IF localFiles[localDirectoryPath] = Absent THEN {"exit1"}
    ELSE IF bucketName \in buckets THEN Runs
    ELSE Runs \ {"exit0"}

-----------------------------------------------------------------------------
(* gcl_log_event and python_log_event, called on their own *)

\* class Environments of infra/enums.py
Environments == {"TEST", "DEV", "STAGING", "PROD"}

LoggerNames == {"infra", "app"}
EventNames == {"Bucket Created"}
Messages == {"A new bucket was created"}
NoDescription == "None"
Descriptions == {NoDescription, "details"}
\* An argument left out of the call.
Omitted == "omitted"
\* **kwargs: none, metadata, and metadata under a key the record has already.
Kwargs == {<<>>, [funcName |-> "create_bucket"],
           [name |-> "other", funcName |-> "create_bucket"]}

\* dict.update: the keys of both, the value of `other` where it has the key.
Update(info, other) ==
    [k \in DOMAIN info \cup DOMAIN other |->
       IF k \in DOMAIN other THEN other[k] ELSE info[k]]

\* info, as lines 41-47 build it.
Info(eventName, message, description, environment, kwargs) ==
    Update([message |-> message, name |-> eventName,
            description |-> description, env |-> Lower(environment)],
           kwargs)

\* gcl_log_event that sends the record again when the sink refused it.
LogEvent_Retry(loggerName, eventName, message, description, environment, severity, kwargs, sink) ==
    LET env == IF environment = Omitted THEN DefaultEnvironment
               ELSE environment
        sev == IF severity = Omitted THEN DefaultSeverity ELSE severity
        info == Info(eventName, message, description, env, kwargs)
        once == <<Request("log_struct", <<loggerName, info, sev>>)>>
    IN /\ Record(Call("gcl_log_event",
                      <<loggerName, eventName, message, description,
                        environment, severity, kwargs>>,
                      [ret |-> IF SinkOk(sink, 1) THEN "None" ELSE "raised",
                       events |-> <<>>, attempts |-> 1,
                       sinkFailed |-> ~SinkOk(sink, 1)],
                      IF SinkOk(sink, 1) THEN once ELSE once \o once,
                      <<>>, "ok", "none"))
       /\ UNCHANGED <<dbVars, gcsVars, hostVars>>

\* gcl_log_event: one log_struct on the logger of that name; what it raises
\* is not caught.
LogEvent(loggerName, eventName, message, description, environment, severity, kwargs, sink) ==
    LET env == IF environment = Omitted THEN DefaultEnvironment
               ELSE environment
        sev == IF severity = Omitted THEN DefaultSeverity ELSE severity
        info == Info(eventName, message, description, env, kwargs)
    IN /\ Record(Call("gcl_log_event",
                      <<loggerName, eventName, message, description,
                        environment, severity, kwargs>>,
                      [ret |-> IF SinkOk(sink, 1) THEN "None" ELSE "raised",
                       events |-> <<>>, attempts |-> 1,
                       sinkFailed |-> ~SinkOk(sink, 1)],
                      <<Request("log_struct", <<loggerName, info, sev>>)>>,
                      <<>>, "ok", "none"))
       /\ UNCHANGED <<dbVars, gcsVars, hostVars>>

\* The calls made with one logger name are counted up to MaxCalls.
MaxCalls == 3
Events == {"e1", "e2"}

\* python_log_event that gives the logger a handler only when it has none.
PythonLogEvent_Once(loggerName, event, severity) ==
    LET n == IF handlers[loggerName] = 0 THEN 1 ELSE handlers[loggerName]
    IN /\ logCalls[loggerName] < MaxCalls
       /\ handlers' = [handlers EXCEPT ![loggerName] = n]
       /\ logCalls' = [logCalls EXCEPT ![loggerName] = @ + 1]
       /\ Record(Call("python_log_event", <<loggerName, event, severity>>,
                      [ret |-> "None", events |-> [i \in 1..n |-> event],
                       attempts |-> 0, sinkFailed |-> FALSE],
                      <<>>, <<>>, "ok", "none"))
       /\ UNCHANGED <<dbVars, gcsVars, pc>>

\* python_log_event (LOG_TO_FILE at its default, False): the logger of that
\* name gets one more StreamHandler, and logger.log, at the level just set,
\* goes through every handler the logger has; events holds what reached
\* the stream.
PythonLogEvent(loggerName, event, severity) ==
    LET n == handlers[loggerName] + 1
    IN /\ logCalls[loggerName] < MaxCalls
       /\ handlers' = [handlers EXCEPT ![loggerName] = n]
       /\ logCalls' = [logCalls EXCEPT ![loggerName] = @ + 1]
       /\ Record(Call("python_log_event", <<loggerName, event, severity>>,
                      [ret |-> "None", events |-> [i \in 1..n |-> event],
                       attempts |-> 0, sinkFailed |-> FALSE],
                      <<>>, <<>>, "ok", "none"))
       /\ UNCHANGED <<dbVars, gcsVars, pc>>

\* No change_db in progress, and loggers as logging.getLogger first hands
\* them out.
HostInit ==
    /\ pc = "idle"
    /\ handlers = [l \in LoggerNames |-> 0]
    /\ logCalls = [l \in LoggerNames |-> 0]

-----------------------------------------------------------------------------
(* The handler in use: any call, in any order, until it is torn down. *)

Init == MongoInit /\ GcsInit /\ HostInit /\ last = NoCall

MongoNext ==
    \/ \E d \in DbNames, s \in SingleSink : ChangeDb(d, s)
    \/ \E c \in ColNames, s \in SingleSink : GetCollection(c, s)
    \/ \E c \in ColNames, f \in DbFaults, s \in SingleSink :
          CreateCollection(c, f, s)
    \/ \E c \in ColNames, f \in DbFaults, s \in SingleSink :
          DeleteCollection(c, f, s)
    \/ \E c \in ColNames, sc \in Schemas, f \in DbFaults, s \in SingleSink :
          \E r \in RejectionsOf(f) : UpdateCollectionSchema(c, sc, f, r, s)
    \/ Teardown

SpecMongo == Init /\ [][MongoNext]_vars

\* create_bucket in use; the handler, on its first database, is idle.
InitGcs == Init /\ db = "evo-dev"

BucketNext ==
    \E b \in BucketNames, a \in AppNames, f \in CreateFaults,
       s \in SingleSink : CreateBucket(b, a, f, s)

SpecBucket == InitGcs /\ [][BucketNext]_vars

\* The artifacts of one bucket: the bucket made, files written, uploaded
\* and downloaded.
GcsNext ==
    \/ \E f \in CreateFaults, s \in SingleSink :
          CreateBucket(ArtifactBucket, ArtifactApp, f, s)
    \/ \E b \in ArtifactBuckets, o \in ObjectNames, p \in SourcePaths,
          f \in SaveFaults, s \in SinkModes : SaveArtifact(b, o, p, f, s)
    \/ \E b \in ArtifactBuckets, o \in ObjectNames, g \in Generations,
          d \in DestDirs, n \in DestFileNames, f \in DownloadFaults,
          s \in SingleSink :
          \E lv \in LeavesOf(f) : DownloadArtifact(b, o, g, d, n, f, lv, s)
    \/ \E p \in LocalPaths, c \in Contents : EditLocalFile(p, c)

SpecGcs == InitGcs /\ [][GcsNext]_vars

\* Bulk downloads from the artifacts' bucket, made or not, into directories
\* that are there or not.
BunchNext ==
    \/ \E f \in CreateFaults, s \in SingleSink :
          CreateBucket(ArtifactBucket, ArtifactApp, f, s)
    \/ \E b \in BunchBuckets, d \in LocalDirs, cp \in CloudPaths,
          r \in BOOLEAN, m \in BOOLEAN, s \in SinkModes :
          \E mk \in MkdirsOf(d), rn \in RunsOf(b, d) :
             DownloadArtifactsBunch(b, d, cp, r, m, mk, rn, s)

SpecBunch == InitGcs /\ [][BunchNext]_vars

\* Every operation of the facades, each on one collection, one object, one
\* directory.
AllNext ==
    \/ \E f \in DbFaults, s \in SingleSink : CreateCollection("tmp", f, s)
    \/ \E f \in DbFaults, s \in SingleSink : DeleteCollection("tmp", f, s)
    \/ \E sc \in Schemas, f \in DbFaults, s \in SingleSink :
          \E r \in RejectionsOf(f) :
             UpdateCollectionSchema("tmp", sc, f, r, s)
    \/ \E f \in CreateFaults, s \in SingleSink :
          CreateBucket(ArtifactBucket, ArtifactApp, f, s)
    \/ \E p \in SourcePaths : EditLocalFile(p, "x")
    \/ \E b \in ArtifactBuckets, p \in SourcePaths, f \in SaveFaults,
          s \in SinkModes : SaveArtifact(b, "model", p, f, s)
    \/ \E b \in ArtifactBuckets, g \in Generations, f \in DownloadFaults,
          s \in SingleSink :
          \E lv \in LeavesOf(f) :
             DownloadArtifact(b, "model", g, "/tmp", "b", f, lv, s)
    \/ \E b \in ArtifactBuckets, s \in SinkModes :
          \E mk \in MkdirsOf("/data"), rn \in RunsOf(b, "/data") :
             DownloadArtifactsBunch(b, "/data", NoPath, FALSE, FALSE,
                                    mk, rn, s)
    \/ \E s \in SingleSink :
          LogEvent("infra", "Bucket Created", "A new bucket was created",
                   NoDescription, Omitted, Omitted, <<>>, s)

SpecAll == InitGcs /\ [][AllNext]_vars

\* Two callers of one handler: one in change_db, which the other's calls
\* may come in between the two assignments of.
RaceNext ==
    \/ \E d \in DbNames : ChangeDbBegin(d)
    \/ \E s \in SingleSink : ChangeDbEnd(s)
    \/ \E c \in ColNames, s \in SingleSink : GetCollection(c, s)
    \/ \E c \in ColNames, f \in DbFaults, s \in SingleSink :
          CreateCollection(c, f, s)

SpecRace == Init /\ [][RaceNext]_vars

\* gcl_log_event with every choice of its arguments.
LogNext ==
    \E l \in LoggerNames, n \in EventNames, m \in Messages,
       d \in Descriptions, e \in Environments \cup {Omitted},
       sv \in LogSeverities \cup {Omitted}, kw \in Kwargs, s \in SingleSink :
       LogEvent(l, n, m, d, e, sv, kw, s)

SpecLog == InitGcs /\ [][LogNext]_vars

\* python_log_event, over and over.
PyLogNext ==
    \E l \in LoggerNames, e \in Events, sv \in LogSeverities :
       PythonLogEvent(l, e, sv)

SpecPyLog == InitGcs /\ [][PyLogNext]_vars

-----------------------------------------------------------------------------
(* Claims about MongoHandler.  A call is "clean" when the driver answered   *)
(* from the database's state (no transport fault was drawn) and the sink    *)
(* accepted what the call logged.                                           *)

Called(op, args) == last'.op = op /\ last'.args = args

CleanCreate(c) ==
    Called("create_collection", <<c>>) /\ CreateCollection(c, "none", "up")
CleanDelete(c) ==
    Called("delete_collection", <<c>>) /\ DeleteCollection(c, "none", "up")
CleanUpdate(c, sc) ==
    /\ Called("update_collection_schema", <<c, sc>>)
    /\ \E r \in Rejections : UpdateCollectionSchema(c, sc, "none", r, "up")

WasClean(op, args, ret) ==
    last.op = op /\ last.args = args /\ last.ret = ret /\ Clean(last)

\* C3: create_collection(c) on a database without c returns True and c then
\* exists; the same call made right after it returns False (it does not
\* raise).
C3_CreateTwice ==
    [][\A c \in ColNames :
         /\ (c \notin collections[db] /\ CleanCreate(c))
              => (last'.ret = "True" /\ c \in collections'[db])
         /\ (WasClean("create_collection", <<c>>, "True") /\ CleanCreate(c))
              => last'.ret = "False"]_vars

C3_Witness ==
    /\ last.op = "create_collection" /\ Clean(last)
    /\ last.before = "True" /\ last.ret = "False"

C5_DeleteMissing ==
    [][\A c \in ColNames :
         /\ (c \notin collections[db] /\ CleanDelete(c))
              => (last'.ret = "False" /\ UNCHANGED dbVars)
         /\ (WasClean("delete_collection", <<c>>, "True") /\ CleanDelete(c))
              => last'.ret = "False"]_vars

C5_Witness ==
    /\ last.op = "delete_collection" /\ Clean(last)
    /\ last.before = "True" /\ last.ret = "False"

\* C6: update_collection_schema(c, s) with a schema the database rejects
\* returns False and leaves every validator as it was; with a valid schema
\* on a collection the database has it returns True and s is c's validator.
C6_UpdateSchema ==
    [][\A c \in ColNames, sc \in Schemas :
         CleanUpdate(c, sc) =>
           /\ sc \in InvalidSchemas
                => (last'.ret = "False" /\ validator' = validator)
           /\ (sc \in ValidSchemas /\ c \in collections[db])
                => (last'.ret = "True" /\ validator'[<<db, c>>] = sc)]_vars

\* An invalid schema was refused on a collection whose validator is set.
C6_Witness ==
    /\ last.op = "update_collection_schema" /\ Clean(last)
    /\ last.args[2] \in InvalidSchemas /\ last.ret = "False"
    /\ last.args[1] \in collections[db]
    /\ validator[<<db, last.args[1]>>] \in ValidSchemas

\* C7: update_collection_schema(c, s) with a valid schema on a collection
\* the current database lacks returns False and creates nothing.
C7_UpdateMissing ==
    [][\A c \in ColNames, sc \in ValidSchemas :
         (c \notin collections[db] /\ CleanUpdate(c, sc))
           => /\ last'.ret = "False"
              /\ collections' = collections
              /\ validator' = validator]_vars

C7_Witness ==
    /\ last.op = "update_collection_schema" /\ Clean(last)
    /\ last.args[2] \in ValidSchemas /\ last.ret = "False"
    /\ last.args[1] \notin collections[db]

-----------------------------------------------------------------------------
(* Claims about the storage facade. *)

CleanCreateBucket(b, a) ==
    Called("create_bucket", <<b, a>>) /\ CreateBucket(b, a, "none", "up")

\* C1: create_bucket(bucket_name, app_name) asks the store for one bucket,
\* named app_name + "_" + bucket_name, and a call that adds a bucket to the
\* store adds that one and no other.
C1_UniqueName ==
    [][\A b \in BucketNames, a \in AppNames :
         (/\ Called("create_bucket", <<b, a>>)
          /\ \E f \in CreateFaults, s \in SingleSink : CreateBucket(b, a, f, s))
           => /\ last'.vendor =
                   <<Request("create_bucket", <<a \o "_" \o b>>)>>
              /\ buckets' \ buckets \subseteq {a \o "_" \o b}
              /\ last'.ret = "True" => (a \o "_" \o b) \in buckets']_vars

C1_Witness ==
    /\ last.op = "create_bucket" /\ last.ret = "True"
    /\ Cardinality(buckets) = Cardinality(BucketNames \X AppNames)

\* C2: create_bucket on a store without the bucket returns True; the same
\* call made right after it returns False (it does not raise).
C2_CreateBucketTwice ==
    [][\A b \in BucketNames, a \in AppNames :
         /\ ((a \o "_" \o b) \notin buckets /\ CleanCreateBucket(b, a))
              => last'.ret = "True"
         /\ (/\ WasClean("create_bucket", <<b, a>>, "True")
             /\ CleanCreateBucket(b, a))
              => last'.ret = "False"]_vars

C2_Witness ==
    /\ last.op = "create_bucket" /\ Clean(last)
    /\ last.before = "True" /\ last.ret = "False"

CleanDownload(b, o, g, d, n) ==
    /\ Called("download_artifact", <<g>>)
    /\ DownloadArtifact(b, o, g, d, n, "none", FALSE, "up")

\* The bucket holds generation g under the name o.
Holds(b, o, g) ==
    g <= Len(blobs) /\ blobs[g].bucket = b /\ blobs[g].object = o

\* C8: download_artifact on a bucket the store has, for an object name and
\* generation the bucket does not hold, returns False, logs one event, of
\* severity WARNING or ERROR, and leaves the local files as they were.
C8_DownloadMissing ==
    [][\A b \in ArtifactBuckets, o \in ObjectNames, g \in Generations,
          d \in DestDirs, n \in DestFileNames :
         (b \in buckets /\ ~Holds(b, o, g) /\ CleanDownload(b, o, g, d, n))
           => /\ last'.ret = "False"
              /\ Len(last'.events) = 1
              /\ last'.events[1].severity \in {"WARNING", "ERROR"}
              /\ last'.attempts = 1
              /\ localFiles' = localFiles]_vars

\* The object asked for was uploaded once and has been replaced since.
C8_Witness ==
    /\ last.op = "download_artifact" /\ Clean(last)
    /\ last.answer = "NoBlob" /\ last.ret = "False"
    /\ last.args[1] <= Len(blobs)

\* C9: a download_artifact of generation g that returns True has written,
\* at dest_dir/dest_file_name, the bytes that the save_artifact which
\* produced generation g read from its file.
C9_RoundTrip ==
    [][\A b \in ArtifactBuckets, o \in ObjectNames, g \in Generations,
          d \in DestDirs, n \in DestFileNames :
         (/\ Called("download_artifact", <<g>>)
          /\ last'.ret = "True"
          /\ \E f \in DownloadFaults, s \in SingleSink :
                DownloadArtifact(b, o, g, d, n, f, FALSE, s))
           => /\ g <= Len(sent)
              /\ localFiles'[d \o "/" \o n] = sent[g]]_vars

\* The bytes came back although the file they were read from has changed.
C9_Witness ==
    /\ last.op = "download_artifact" /\ last.ret = "True"
    /\ \E p \in LocalPaths \ SourcePaths : localFiles[p] = sent[last.args[1]]
    /\ \E p \in SourcePaths : localFiles[p] # sent[last.args[1]]

\* C10: a download_artifact that does not raise returns True or False.
C10_ReturnsBool ==
    (last.op = "download_artifact" /\ last.ret # "raised")
      => last.ret \in {"True", "False"}

\* C11: with the sink accepting what is logged, save_artifact returns False
\* and logs one event when the bucket is not found, when the vendor raises a
\* cloud error, or when the local file does not exist; otherwise the upload
\* succeeds and it returns True.
C11_SaveOutcomes ==
    [][\A b \in ArtifactBuckets, o \in ObjectNames, p \in SourcePaths,
          f \in SaveFaults :
         (Called("save_artifact", <<o>>) /\ SaveArtifact(b, o, p, f, "up"))
           => IF b \notin buckets \/ f # "none" \/ localFiles[p] = Absent
              THEN /\ last'.ret = "False"
                   /\ Len(last'.events) = 1
                   /\ last'.attempts = 1
                   /\ blobs' = blobs
              ELSE /\ last'.ret = "True"
                   /\ blobs'[Len(blobs')].content = localFiles[p]]_vars

\* The bucket is there and the file is not.
C11_Witness ==
    /\ last.op = "save_artifact" /\ last.answer = "FileNotFoundError"
    /\ last.ret = "False" /\ Len(last.events) = 1

\* C12: a save_artifact that returns, returns True exactly when it has
\* uploaded the file: after one that returned False the object store holds
\* what it held before.
C12_TrueIffUploaded ==
    [][\A b \in ArtifactBuckets, o \in ObjectNames, p \in SourcePaths,
          f \in SaveFaults, s \in SinkModes :
         (/\ Called("save_artifact", <<o>>)
          /\ SaveArtifact(b, o, p, f, s)
          /\ last'.ret \in {"True", "False"})
           => (last'.ret = "True" <=> blobs' # blobs)]_vars

\* C13: a create_bucket that met a name conflict, its event accepted by the
\* sink, has returned False and logged one event, of severity WARNING.
C13_ConflictWarning ==
    (last.op = "create_bucket" /\ last.answer = "Conflict" /\ ~last.sinkFailed)
      => /\ last.ret = "False"
         /\ Len(last.events) = 1
         /\ last.events[1].severity = "WARNING"

-----------------------------------------------------------------------------
(* Claims about download_artifacts_bunch.  The record of a call holds its   *)
(* arguments: bucket, local directory, cloud path, recursive, parallel.     *)

C15_TrueOnlyIfCopied ==
    (last.op = "download_artifacts_bunch" /\ last.answer \in Runs)
      => /\ last.ret = "True" => last.answer = "exit0"
         /\ (last.answer # "exit0" /\ last.ret # "raised")
              => last.ret = "False"
         /\ \A i \in 1..Len(last.events) :
              last.events[i].name = "Artifacts Bunch Download"
                => last.answer = "exit0"

\* C16 (as the code has it): the command run is gsutil, then -m exactly when
\* parallel is asked for, then cp, then -r exactly when recursive is asked
\* for, then gs://bucket or gs://bucket/path, then the local directory.
C16_CommandShape ==
    (last.op = "download_artifacts_bunch" /\ last.answer \in Runs)
      => LET a == last.args
             url == IF a[3] \in {NoPath, ""} THEN "gs://" \o a[1]
                    ELSE "gs://" \o a[1] \o "/" \o a[3]
         IN /\ Len(last.vendor) = 1
            /\ last.vendor[1].call = "subprocess.run"
            /\ last.vendor[1].target =
                 <<"gsutil">> \o (IF a[5] THEN <<"-m">> ELSE <<>>)
                   \o <<"cp">> \o (IF a[4] THEN <<"-r">> ELSE <<>>)
                   \o <<url, a[2]>>

\* Both flags and a cloud path, copied into the directory named cp.
C16_Witness ==
    /\ last.op = "download_artifacts_bunch" /\ last.answer \in Runs
    /\ last.args[3] = "models" /\ last.args[4] /\ last.args[5]
    /\ last.args[2] = "cp"
    /\ last.vendor[1].target[2] = "-m" /\ last.vendor[1].target[4] = "-r"

\* C16 (as stated): the command run is gsutil, then cp, then -m exactly when
\* parallel is asked for, then -r exactly when recursive is asked for, then
\* the URL, then the local directory.
C16_FlagsAfterCp ==
    (last.op = "download_artifacts_bunch" /\ last.answer \in Runs)
      => LET a == last.args
             url == IF a[3] \in {NoPath, ""} THEN "gs://" \o a[1]
                    ELSE "gs://" \o a[1] \o "/" \o a[3]
         IN last.vendor[1].target =
              <<"gsutil", "cp">> \o (IF a[5] THEN <<"-m">> ELSE <<>>)
                \o (IF a[4] THEN <<"-r">> ELSE <<>>)
                \o <<url, a[2]>>

-----------------------------------------------------------------------------
(* Claims about the handler's database and its connection. *)

CollectionOps == {"get_collection", "create_collection",
                  "delete_collection", "update_collection_schema"}

\* The step is a call of one of the four collection operations, on c (the
\* fault drawn for a call is in its record).
CollectionCall(c) ==
    \/ /\ Called("get_collection", <<c>>)
       /\ \E s \in SingleSink : GetCollection(c, s)
    \/ /\ Called("create_collection", <<c>>)
       /\ \E f \in {last'.fault}, s \in SingleSink : CreateCollection(c, f, s)
    \/ /\ Called("delete_collection", <<c>>)
       /\ \E f \in {last'.fault}, s \in SingleSink : DeleteCollection(c, f, s)
    \/ \E sc \in Schemas :
          /\ Called("update_collection_schema", <<c, sc>>)
          /\ \E f \in {last'.fault}, s \in SingleSink, r \in Rejections :
                UpdateCollectionSchema(c, sc, f, r, s)

\* The step addressed database n and touched no other.
ActsOn(n) ==
    /\ last'.vendor[1].target[1] = n
    /\ \A d \in DbNames \ {n} :
         /\ collections'[d] = collections[d]
         /\ \A c \in ColNames : validator'[<<d, c>>] = validator[<<d, c>>]

\* C17: dbName is the database the handler was built with until change_db
\* is called, and n after change_db(n); every get_collection,
\* create_collection, delete_collection and update_collection_schema acts on
\* the database dbName names and leaves dbName as it is.
C17_ActsOnCurrent ==
    /\ db = currDbName
    /\ [][/\ last'.op = "change_db"
               => \A n \in {last'.args[1]} :
                    (\E s \in SingleSink : ChangeDb(n, s))
                      => currDbName' = n
          /\ last'.op \in CollectionOps
               => \A c \in {last'.args[1]} :
                    CollectionCall(c)
                      => (ActsOn(currDbName) /\ currDbName' = currDbName)]_vars

\* A collection operation after a change_db to the other database.
C17_Witness ==
    /\ last.op = "create_collection" /\ last.ret = "True"
    /\ last.vendor[1].target[1] = currDbName
    /\ \E d \in DbNames \ {currDbName} :
         collections[d] # {} /\ collections[d] # collections[currDbName]

\* C18: get_collection(c) changes neither the current database nor the
\* collections there are; with the sink accepting its event, it returns a
\* handle of collection c of the current database and logs one event, of
\* severity DEBUG.
C18_GetCollection ==
    [][last'.op = "get_collection" =>
       \A c \in {last'.args[1]}, s \in SingleSink :
         (Called("get_collection", <<c>>) /\ GetCollection(c, s))
           => /\ UNCHANGED <<db, currDbName, collections, validator>>
              /\ s = "up" => /\ last'.ret = "handle"
                             /\ last'.handle = <<currDbName, c>>
                             /\ Len(last'.events) = 1
                             /\ last'.events[1].severity = "DEBUG"
                             /\ last'.attempts = 1]_vars

\* A handle of a collection the database does not have.
C18_Witness ==
    /\ last.op = "get_collection" /\ last.ret = "handle"
    /\ last.handle[1] = currDbName
    /\ last.handle[2] \notin collections[currDbName]
    /\ collections[currDbName] # {}

\* C19: a create_collection, delete_collection or update_collection_schema
\* during which the connection fails returns False, hands nothing to the
\* logging sink, and changes nothing in the database.
C19_ConnectionFailure ==
    [][(last'.fault = "ConnectionFailure" /\ last'.op \in CollectionOps)
         => \A c \in {last'.args[1]}, s \in SingleSink :
              (\/ /\ Called("create_collection", <<c>>)
                  /\ CreateCollection(c, "ConnectionFailure", s)
               \/ /\ Called("delete_collection", <<c>>)
                  /\ DeleteCollection(c, "ConnectionFailure", s)
               \/ \E sc \in Schemas :
                     /\ Called("update_collection_schema", <<c, sc>>)
                     /\ UpdateCollectionSchema(c, sc, "ConnectionFailure",
                                               "errmsg", s))
                => /\ last'.ret = "False"
                   /\ last'.events = <<>> /\ last'.attempts = 0
                   /\ UNCHANGED <<collections, validator>>]_vars

\* The connection failed while the sink was down, and nothing was raised.
C19_Witness ==
    /\ last.op = "create_collection" /\ last.fault = "ConnectionFailure"
    /\ last.ret = "False" /\ last.attempts = 0

\* C20: the handler has one open connection from its construction until
\* its teardown and none after it: no operation opens or closes one.
C20_OneConnection ==
    /\ conns = 1
    /\ [][/\ conns' <= 1
          /\ conns' # conns => (Teardown /\ conns' = 0)
          /\ last' # last => (conns = 1 /\ conns' = 1)]_vars

\* Torn down after a change of database.
C20_Witness ==
    conns = 0 /\ last.op = "change_db" /\ last.ret = "None"

-----------------------------------------------------------------------------
(* Claims about the logging functions.  The record of a gcl_log_event call  *)
(* holds its arguments: logger, event name, message, description,           *)
(* environment, severity, extra keywords; its one request holds the logger  *)
(* addressed, the record sent and the severity.                             *)

\* The record sent has the message, the description and every extra keyword.
C21_Carries(a, rec) ==
    /\ {"message", "name", "description", "env"} \subseteq DOMAIN rec
    /\ rec["message"] = a[3]
    /\ rec["description"] = a[4]
    /\ \A k \in DOMAIN a[7] : k \in DOMAIN rec /\ rec[k] = a[7][k]

\* The lower-cased name of the environment asked for, 'dev' when none was.
C21_Env(environment) ==
    CASE environment = Omitted -> "dev"
      [] environment = "TEST" -> "test"
      [] environment = "DEV" -> "dev"
      [] environment = "STAGING" -> "staging"
      [] environment = "PROD" -> "prod"

\* One log_struct, on the logger named, at the severity given (INFO when
\* none was).
C21_OneRecord(a, sent1) ==
    /\ Len(sent1) = 1
    /\ sent1[1].call = "log_struct"
    /\ sent1[1].target[1] = a[1]
    /\ sent1[1].target[3] = IF a[6] = Omitted THEN "INFO" ELSE a[6]

\* C21 (as the code has it): a gcl_log_event call sends one record to the
\* logger named, at the severity given (INFO by default), holding message,
\* description and every extra keyword, and holding the event name as name
\* and the lower-cased environment name (dev by default) as env unless an
\* extra keyword of that name has taken the key.
C21_RecordSent ==
    last.op = "gcl_log_event"
      => LET a == last.args
             rec == last.vendor[1].target[2]
         IN /\ C21_OneRecord(a, last.vendor)
            /\ C21_Carries(a, rec)
            /\ "name" \notin DOMAIN a[7] => rec["name"] = a[2]
            /\ "env" \notin DOMAIN a[7] => rec["env"] = C21_Env(a[5])

\* Defaults taken, extra metadata carried.
C21_Witness ==
    /\ last.op = "gcl_log_event" /\ last.ret = "None"
    /\ last.args[5] = Omitted /\ last.args[6] = Omitted
    /\ DOMAIN last.args[7] = {"funcName"}
    /\ last.vendor[1].target[2]["env"] = "dev"
    /\ last.vendor[1].target[3] = "INFO"

\* C21 (as stated): the record holds the event name as name and the
\* lower-cased environment name as env, whatever the extra keywords.
C21_AlwaysNamed ==
    last.op = "gcl_log_event"
      => LET a == last.args
             rec == last.vendor[1].target[2]
         IN /\ C21_OneRecord(a, last.vendor)
            /\ C21_Carries(a, rec)
            /\ rec["name"] = a[2]
            /\ rec["env"] = C21_Env(a[5])

-----------------------------------------------------------------------------
(* Claims about all the facades. *)

\* C22: a create_collection or delete_collection during which the driver
\* raises an operation failure, and a create_bucket during which the store
\* raises a cloud error other than Conflict, raise: they return nothing and
\* log nothing.
C22_Propagates ==
    (\/ /\ last.op \in {"create_collection", "delete_collection"}
        /\ last.fault = "OperationFailure"
     \/ /\ last.op = "create_bucket"
        /\ last.fault = "GoogleCloudError")
      => /\ last.ret = "raised"
         /\ last.events = <<>>
         /\ last.attempts = 0

\* The store refused to make the bucket, for a reason other than its name.
C22_Witness ==
    /\ last.op = "create_bucket" /\ last.fault = "GoogleCloudError"
    /\ last.ret = "raised" /\ buckets = {}

\* C23: no call of a facade operation asks the vendor (or runs the copy
\* tool) for the same thing twice, whether the request succeeded or failed.
C23_NoRetry ==
    \A i, j \in 1..Len(last.vendor) :
       i # j => last.vendor[i].call # last.vendor[j].call

\* An upload that failed was tried once.
C23_Witness ==
    /\ last.op = "save_artifact" /\ last.fault = "UploadError"
    /\ last.ret = "False"
    /\ Len(last.vendor) = 2 /\ last.vendor[2].call = "upload_from_file"

-----------------------------------------------------------------------------
(* More claims about MongoHandler. *)

MongoOps == CollectionOps \cup {"change_db"}
StorageOps == {"create_bucket", "save_artifact", "download_artifact",
               "download_artifacts_bunch"}

\* C24: the event change_db(n) logs has, as old_db, the name that was
\* current before the call and, as new_db, n.
C24_OldAndNew ==
    [][last'.op = "change_db"
         => \A n \in {last'.args[1]} :
              ChangeDb(n, "up")
                => /\ Len(last'.events) = 1
                   /\ last'.events[1].extra = <<currDbName, n>>]_vars

\* C25: the environment of every event a storage operation logs is the
\* lower-cased name of a member of Environments.
C25_EnvInEnum ==
    last.op \in StorageOps
      => \A i \in 1..Len(last.events) :
            \E e \in Environments : last.events[i].env = Lower(e)

\* C26: a MongoHandler operation that has returned has logged one event,
\* or none if it returned False because the connection failed; none logs
\* two.
C26_OneEvent ==
    last.op \in MongoOps
      => /\ Len(last.events) <= 1
         /\ last.ret # "raised"
              => IF last.fault = "ConnectionFailure"
                 THEN last.ret = "False" /\ last.events = <<>>
                 ELSE Len(last.events) = 1

\* A delete_collection refused by the server: False, and one event.
C26_Witness ==
    /\ last.op = "delete_collection" /\ last.answer = "errmsg"
    /\ last.ret = "False" /\ Len(last.events) = 1

\* C27: dbName names the database the operations act on, and a step that
\* changes either of the two is a change_db: the collection operations
\* leave both alone, whatever they return.
C27_OnlyChangeDb ==
    /\ db = currDbName
    /\ [][/\ db' = currDbName'
          /\ (db' # db \/ currDbName' # currDbName)
               => /\ last'.op = "change_db"
                  /\ \E s \in SingleSink : ChangeDb(last'.args[1], s)
          /\ last'.op \in CollectionOps
               => (CollectionCall(last'.args[1])
                     => UNCHANGED <<db, currDbName>>)]_vars

\* On the second database, a delete that succeeded and one that failed.
C27_Witness ==
    /\ last.op = "delete_collection" /\ last.before = "True"
    /\ last.ret = "False" /\ db = currDbName
    /\ \E d \in DbNames \ {db} : collections[d] # {}

C28_Race ==
    /\ [](pc = "idle" => db = currDbName)
    /\ [][(last'.op = "get_collection" /\ pc # "idle")
            => \A c \in {last'.args[1]}, s \in SingleSink :
                 GetCollection(c, s)
                   => /\ last'.handle = <<pc, c>>
                      /\ currDbName' = currDbName]_vars

\* The caller holds a handle on one database and reads the name of another.
C28_Witness ==
    /\ last.op = "get_collection" /\ last.ret = "handle"
    /\ pc # "idle"
    /\ last.handle[1] # currDbName

\* C30: every python_log_event call adds one more StreamHandler to the
\* named logger and removes none: after k calls on a logger it has k
\* handlers, and the k-th call writes its event k times, once per handler.
C30_HandlersGrow ==
    /\ \A l \in LoggerNames : handlers[l] = logCalls[l]
    /\ last.op = "python_log_event"
         => /\ Len(last.events) = logCalls[last.args[1]]
            /\ \A i \in 1..Len(last.events) : last.events[i] = last.args[2]

\* A later call on a logger: its event is written more than once.
C30_Witness ==
    /\ last.op = "python_log_event"
    /\ logCalls[last.args[1]] = MaxCalls
    /\ Len(last.events) = MaxCalls

=============================================================================
